---- MODULE Spec2Model ----
(***************************************************************************)
(* Model of the finance ML service: the python-ml detectors               *)
(* (MerchantDetector, CategoryDetector, AnomalyDetector, the batch        *)
(* helper detect_merchants_batch and the /v1 endpoints around them) and    *)
(* the ml-service variant (detect_merchant_simple, detect_category_simple,*)
(* detect_anomaly_zscore and its endpoints).                               *)
(*                                                                         *)
(* Conventions.                                                            *)
(*  - A Python str is a sequence of one-character strings, so that upper, *)
(*    lower, split and the substring test are computed, not assumed.       *)
(*  - A confidence is an integer number of hundredths (0.95 is 95).        *)
(*  - Amounts are integers; the arithmetic of the anomaly scorers is       *)
(*    exact (no floating-point rounding is modelled).                      *)
(***************************************************************************)
EXTENDS Integers, Sequences, FiniteSets, TLC

(***************************************************************************)
(* Bounds of the model.                                                    *)
(***************************************************************************)
MaxFrags == 2

MaxHist == 4

MaxHistAmount == 4

MaxAmount == 8

MaxBatch == 3

(***************************************************************************)
(* Python str operations.                                                  *)
(***************************************************************************)
LowerChars == <<"a", "b", "c", "d", "e", "f", "g", "h", "i", "j", "k", "l", "m", "n", "o", "p", "q", "r", "s", "t", "u", "v", "w", "x", "y", "z">>

UpperChars == <<"A", "B", "C", "D", "E", "F", "G", "H", "I", "J", "K", "L", "M", "N", "O", "P", "Q", "R", "S", "T", "U", "V", "W", "X", "Y", "Z">>

Whitespace == {" "}

UpperChar(c) ==
    IF \E i \in 1..26 : LowerChars[i] = c
    THEN UpperChars[CHOOSE i \in 1..26 : LowerChars[i] = c]
    ELSE c

LowerChar(c) ==
    IF \E i \in 1..26 : UpperChars[i] = c
    THEN LowerChars[CHOOSE i \in 1..26 : UpperChars[i] = c]
    ELSE c

\* str.upper()
Upper(s) == [i \in 1..Len(s) |-> UpperChar(s[i])]

\* str.lower()
Lower(s) == [i \in 1..Len(s) |-> LowerChar(s[i])]

\* `pattern in text` for two str values
Contains(pattern, text) ==
    \E k \in 0..(Len(text) - Len(pattern)) :
        \A i \in 1..Len(pattern) : text[k + i] = pattern[i]

\* str.split()[0] when str.split() is not empty: the first maximal run of
\* characters that are not whitespace
HasWord(s) == \E i \in 1..Len(s) : s[i] \notin Whitespace

FirstWord(s) ==
    LET start == CHOOSE i \in 1..Len(s) :
                     /\ s[i] \notin Whitespace
                     /\ \A j \in 1..(i - 1) : s[j] \in Whitespace
        stop  == CHOOSE j \in start..Len(s) :
                     /\ \A k \in start..j : s[k] \notin Whitespace
                     /\ (j = Len(s) \/ s[j + 1] \in Whitespace)
    IN  SubSeq(s, start, stop)

(***************************************************************************)
(* ml-service: rule tables and the pattern-based detectors.                *)
(***************************************************************************)
\* the dict in insertion order, which is the order its items() are visited
MERCHANT_PATTERNS == <<
    [pattern |-> <<"S", "T", "A", "R", "B", "U", "C", "K", "S">>,
     merchant |-> <<"s", "t", "a", "r", "b", "u", "c", "k", "s">>],
    [pattern |-> <<"A", "M", "A", "Z", "O", "N">>,
     merchant |-> <<"a", "m", "a", "z", "o", "n">>],
    [pattern |-> <<"U", "B", "E", "R">>,
     merchant |-> <<"u", "b", "e", "r">>],
    [pattern |-> <<"N", "E", "T", "F", "L", "I", "X">>,
     merchant |-> <<"n", "e", "t", "f", "l", "i", "x">>],
    [pattern |-> <<"S", "P", "O", "T", "I", "F", "Y">>,
     merchant |-> <<"s", "p", "o", "t", "i", "f", "y">>],
    [pattern |-> <<"T", "A", "R", "G", "E", "T">>,
     merchant |-> <<"t", "a", "r", "g", "e", "t">>],
    [pattern |-> <<"W", "A", "L", "M", "A", "R", "T">>,
     merchant |-> <<"w", "a", "l", "m", "a", "r", "t">> ] >>

RECURSIVE PatternLoop(_, _)
\* a variant of the loop that does not return at the first pattern found and
\* keeps the last one
PatternLoopLast(description_upper, k) ==
    IF \E j \in k..Len(MERCHANT_PATTERNS) :
           Contains(MERCHANT_PATTERNS[j].pattern, description_upper)
    THEN CHOOSE j \in k..Len(MERCHANT_PATTERNS) :
             /\ Contains(MERCHANT_PATTERNS[j].pattern, description_upper)
             /\ \A i \in (j + 1)..Len(MERCHANT_PATTERNS) :
                    ~Contains(MERCHANT_PATTERNS[i].pattern, description_upper)
    ELSE 0

\* the loop of detect_merchant_simple over MERCHANT_PATTERNS.items(), entered
\* at position k with the uppercased description: the position of the first
\* pattern found in it, 0 when the loop falls through
PatternLoop(description_upper, k) ==
    IF k > Len(MERCHANT_PATTERNS)
    THEN 0
    ELSE IF Contains(MERCHANT_PATTERNS[k].pattern, description_upper)
         THEN k
         ELSE PatternLoop(description_upper, k + 1)

detect_merchant_simple(description) ==
    LET description_upper == Upper(description)
        hit == PatternLoop(description_upper, 1)
    IN  IF hit # 0
        THEN [merchant |-> MERCHANT_PATTERNS[hit].merchant, confidence |-> 95]
        ELSE LET first_word == IF HasWord(description)
                               THEN FirstWord(description)
                               ELSE <<"U", "N", "K", "N", "O", "W", "N">>
             IN  [merchant |-> Lower(first_word), confidence |-> 30]

\* ml-service CATEGORY_RULES (merchant -> category)
SIMPLE_CATEGORY_RULES == <<
    [merchant |-> <<"s", "t", "a", "r", "b", "u", "c", "k", "s">>, category |-> "cafe"],
    [merchant |-> <<"a", "m", "a", "z", "o", "n">>, category |-> "online-shopping"],
    [merchant |-> <<"u", "b", "e", "r">>, category |-> "transportation"],
    [merchant |-> <<"n", "e", "t", "f", "l", "i", "x">>, category |-> "entertainment"],
    [merchant |-> <<"s", "p", "o", "t", "i", "f", "y">>, category |-> "entertainment"],
    [merchant |-> <<"t", "a", "r", "g", "e", "t">>, category |-> "retail"],
    [merchant |-> <<"w", "a", "l", "m", "a", "r", "t">>, category |-> "retail"] >>

detect_category_simple(merchant) ==
    IF \E k \in 1..Len(SIMPLE_CATEGORY_RULES) : SIMPLE_CATEGORY_RULES[k].merchant = merchant
    THEN LET k == CHOOSE j \in 1..Len(SIMPLE_CATEGORY_RULES) :
                      SIMPLE_CATEGORY_RULES[j].merchant = merchant
         IN  [category |-> SIMPLE_CATEGORY_RULES[k].category, confidence |-> 95]
    ELSE [category |-> "uncategorized", confidence |-> 30]

(***************************************************************************)
(* python-ml: configuration, result models and rule table.                 *)
(***************************************************************************)
Providers == {"openai", "anthropic"}

\* settings.openai_model / settings.anthropic_model, as the detectors'
\* constructors select self.model
ModelOf(llm_provider) ==
    IF llm_provider = "openai" THEN "gpt-4-turbo-preview" ELSE "claude-3-sonnet-20240229"

\* outcome of a call: a returned value or a raised exception
Returned(value) == [kind |-> "result", result |-> value]

Raised(exception) == [kind |-> "error", error |-> exception]

NoOutcome == [kind |-> "none"]

\* a variant of the field with the lower bound only: Field(..., ge=0.0)
ConfidenceNotNegative(confidence) == confidence >= 0

\* Field(..., ge=0.0, le=1.0) on the confidence of the three result models
ConfidenceInRange(confidence) == confidence >= 0 /\ confidence <= 100

\* MerchantDetection(...): the validated value, or pydantic's ValidationError
MerchantDetection(transaction_id, merchant, confidence, model, reasoning) ==
    IF ConfidenceInRange(confidence)
    THEN Returned([transaction_id |-> transaction_id, merchant |-> merchant,
                   confidence |-> confidence, model |-> model,
                   reasoning |-> reasoning])
    ELSE Raised("ValidationError")

\* CategoryDetection(...): category is a plain str field, method a Literal
CategoryDetection(transaction_id, category, confidence, method, rule_id, model, reasoning) ==
    IF ConfidenceInRange(confidence) /\ method \in {"rule", "ml"}
    THEN Returned([transaction_id |-> transaction_id, category |-> category,
                   confidence |-> confidence, method |-> method,
                   rule_id |-> rule_id, model |-> model,
                   reasoning |-> reasoning])
    ELSE Raised("ValidationError")

\* python-ml CATEGORY_RULES
CATEGORY_RULES == <<
    [merchant |-> <<"s", "t", "a", "r", "b", "u", "c", "k", "s">>,
     category |-> "cafe", confidence |-> 98, rule_id |-> "starbucks-rule"],
    [merchant |-> <<"a", "m", "a", "z", "o", "n">>,
     category |-> "shopping", confidence |-> 95, rule_id |-> "amazon-rule"],
    [merchant |-> <<"u", "b", "e", "r">>,
     category |-> "transportation", confidence |-> 95, rule_id |-> "uber-rule"],
    [merchant |-> <<"w", "a", "l", "m", "a", "r", "t">>,
     category |-> "groceries", confidence |-> 90, rule_id |-> "walmart-rule"] >>

\* the categories the prompt of _detect_with_llm lists
PromptCategories ==
    {"cafe", "groceries", "shopping", "transportation", "utilities", "dining",
     "entertainment", "healthcare", "other"}

(***************************************************************************)
(* The external classifier.  A call either raises (transport or            *)
(* authentication failure) or returns a text; the text is JSON or not, and *)
(* a JSON object has or lacks the keys the detectors read.                 *)
(***************************************************************************)
NotJson == [json |-> FALSE, keys |-> {}, label |-> <<>>, category |-> "", confidence |-> 0]

MerchantLabels ==
    {<<"s", "t", "a", "r", "b", "u", "c", "k", "s">>,
     <<"u", "n", "k", "n", "o", "w", "n", "_", "m", "e", "r", "c", "h", "a", "n", "t">>,
     <<"B", "l", "u", "e", " ", "B", "o", "t", "t", "l", "e">>}

CategoryLabels == {"cafe", "dining", "travel"}

ReportedConfidences == {-10, 30, 98, 150}

MerchantResponses ==
    {NotJson}
    \cup {[json |-> TRUE, keys |-> {"merchant", "confidence", "reasoning"},
           label |-> l, category |-> "", confidence |-> c] :
              l \in MerchantLabels, c \in ReportedConfidences}
    \cup {[json |-> TRUE, keys |-> ks,
           label |-> <<"s", "t", "a", "r", "b", "u", "c", "k", "s">>,
           category |-> "", confidence |-> 98] :
              ks \in {{"merchant"}, {"confidence"}, {"merchant", "confidence"}}}

CategoryResponses ==
    {NotJson}
    \cup {[json |-> TRUE, keys |-> {"category", "confidence", "reasoning"},
           label |-> <<>>, category |-> g, confidence |-> c] :
              g \in CategoryLabels, c \in ReportedConfidences}
    \cup {[json |-> TRUE, keys |-> ks, label |-> <<>>,
           category |-> "cafe", confidence |-> 98] :
              ks \in {{"category"}, {"confidence"}, {"category", "confidence"}}}

\* result.get("reasoning")
GetReasoning(response) ==
    IF "reasoning" \in response.keys THEN "reasoning" ELSE "None"

(***************************************************************************)
(* MerchantDetector.                                                       *)
(***************************************************************************)
\* a variant that reads the confidence with result.get("confidence", 0.5)
_detect_with_provider_default(transaction, response, model) ==
    IF ~response.json THEN Raised("JSONDecodeError")
    ELSE IF "merchant" \notin response.keys THEN Raised("KeyError")
    ELSE MerchantDetection(transaction.id, response.label,
                           IF "confidence" \in response.keys
                           THEN response.confidence ELSE 50,
                           model, GetReasoning(response))

\* _detect_with_openai / _detect_with_anthropic after the provider has
\* answered: json.loads, the two subscripts, the MerchantDetection
_detect_with_provider(transaction, response, model) ==
    IF ~response.json THEN Raised("JSONDecodeError")
    ELSE IF "merchant" \notin response.keys THEN Raised("KeyError")
    ELSE IF "confidence" \notin response.keys THEN Raised("KeyError")
    ELSE MerchantDetection(transaction.id, response.label, response.confidence,
                           model, GetReasoning(response))

\* a variant of the except clause that answers a default merchant
MerchantDetectExceptDefault(transaction, exception) ==
    MerchantDetection(transaction.id,
        <<"u", "n", "k", "n", "o", "w", "n", "_", "m", "e", "r", "c", "h", "a", "n", "t">>,
        0, "None", "None")

\* the except clause of MerchantDetector.detect: log and re-raise
MerchantDetectExcept(transaction, exception) == Raised(exception)

(***************************************************************************)
(* CategoryDetector.                                                       *)
(***************************************************************************)
\* the module-level dict of category.py that the name CATEGORY_RULES is
\* bound to: a mutable object every call of the process reads, whose
\* content at import is CATEGORY_RULES
VARIABLE rules

\* a variant of the lookup that searches the table for merchant.upper()
CategoryRuleIndexUpper(merchant) ==
    IF \E k \in 1..Len(rules) : rules[k].merchant = Upper(merchant)
    THEN CHOOSE k \in 1..Len(rules) : rules[k].merchant = Upper(merchant)
    ELSE 0

\* `merchant in CATEGORY_RULES`: the position of the key, 0 when absent
CategoryRuleIndex(merchant) ==
    IF \E k \in 1..Len(rules) : rules[k].merchant = merchant
    THEN CHOOSE k \in 1..Len(rules) : rules[k].merchant = merchant
    ELSE 0

\* the rule branch of CategoryDetector.detect
CategoryRuleResult(transaction, merchant) ==
    LET rule == rules[CategoryRuleIndex(merchant)]
    IN  CategoryDetection(transaction.id, rule.category, rule.confidence,
                          "rule", rule.rule_id, "None", "rule-match")

\* _detect_with_llm after the provider has answered
_detect_with_llm(transaction, merchant, response, model) ==
    IF ~response.json THEN Raised("JSONDecodeError")
    ELSE IF "category" \notin response.keys THEN Raised("KeyError")
    ELSE IF "confidence" \notin response.keys THEN Raised("KeyError")
    ELSE CategoryDetection(transaction.id, response.category, response.confidence,
                           "ml", "None", model, GetReasoning(response))

(***************************************************************************)
(* Arithmetic for the anomaly scorers.  A mean is a rational [num, den]    *)
(* with den > 0; a standard deviation and a z-score are numbers of the     *)
(* form sgn * sqrt(p / q) with q > 0, kept as [sgn, p, q, ulp].            *)
(*                                                                         *)
(* The scorers compute in double precision.  The amounts of the model are  *)
(* integers in an unspecified unit (1.0, 0.01, 0.49, ...), and to which    *)
(* side a quotient or a sum is rounded depends on the unit: with the       *)
(* history [0, 0, 4, 4] and the amount 7 the quotient is 2.5 in units of   *)
(* 1.0 and 2.5000000000000004 in units of 0.49.  A computed value          *)
(* therefore carries the side it was rounded to (ulp: -1 below, 0 exact,   *)
(* 1 above the exact value), chosen by the step that computes it; the      *)
(* displacement is smaller than any difference between two distinct exact  *)
(* values, so it decides a comparison only when the exact values tie; away *)
(* from a tie the exact value stands for its three neighbours.             *)
(***************************************************************************)
Roundings == {-1, 0, 1}

RECURSIVE Sum(_)
Sum(xs) == IF xs = <<>> THEN 0 ELSE Head(xs) + Sum(Tail(xs))

RECURSIVE SumSq(_)
SumSq(xs) == IF xs = <<>> THEN 0 ELSE Head(xs) * Head(xs) + SumSq(Tail(xs))

Sign(x) == IF x > 0 THEN 1 ELSE IF x < 0 THEN -1 ELSE 0

Root(sgn, p, q) == [sgn |-> IF p = 0 THEN 0 ELSE sgn, p |-> p, q |-> q, ulp |-> 0]

\* the double nearest to z, on the side ulp; zero is exact
Rounded(z, ulp) == [z EXCEPT !.ulp = IF z.sgn = 0 THEN 0 ELSE ulp]

Zero == Root(0, 0, 1)

One == Root(1, 1, 1)

\* statistics.mean and np.mean
Mean(xs) == [num |-> Sum(xs), den |-> Len(xs)]

\* n * sum(x^2) - sum(x)^2, which is n^2 times the population variance
SquaredDeviation(xs) == Len(xs) * SumSq(xs) - Sum(xs) * Sum(xs)

\* np.std: the population standard deviation
PopulationStd(xs) == Root(1, SquaredDeviation(xs), Len(xs) * Len(xs))

\* statistics.stdev: the sample standard deviation (len(xs) >= 2)
SampleStdev(xs) == Root(1, SquaredDeviation(xs), Len(xs) * (Len(xs) - 1))

\* (amount - mean) / std for std # 0, rounded to the side ulp
Deviations(amount, mean, std, ulp) ==
    LET diff == amount * mean.den - mean.num
    IN  Rounded(Root(Sign(diff), diff * diff * std.q, mean.den * mean.den * std.p),
                ulp)

\* abs()
AbsRoot(z) ==
    [z EXCEPT !.sgn = IF z.sgn < 0 THEN 1 ELSE z.sgn,
              !.ulp = IF z.sgn < 0 THEN 0 - z.ulp ELSE z.ulp]

\* z > num / den for a threshold num / den > 0
RootGreater(z, num, den) ==
    /\ z.sgn > 0
    /\ \/ z.p * den * den > num * num * z.q
       \/ z.p * den * den = num * num * z.q /\ z.ulp > 0

\* z / k for an integer k > 0
RootDiv(z, k) == [z EXCEPT !.q = z.q * k * k]

\* min(z, 1.0)
MinOne(z) == IF RootGreater(z, 1, 1) THEN One ELSE z

\* amount > mean + (num / den) * std, the sum rounded to the side ulp
AboveBand(amount, mean, num, den, std, ulp) ==
    LET diff == amount * mean.den - mean.num
        lhs  == diff * diff * den * den * std.q
        rhs  == num * num * std.p * mean.den * mean.den
    IN  /\ diff > 0
        /\ \/ lhs > rhs
           \/ lhs = rhs /\ ulp < 0

\* min(0.99, 0.50 + z / 10) in hundredths, truncated
ZConfidence(z) ==
    IF z.sgn <= 0 THEN 50
    ELSE IF 100 * z.p >= 49 * 49 * z.q THEN 99
    ELSE 50 + (CHOOSE r \in 0..48 :
                   /\ r * r * z.q <= 100 * z.p
                   /\ 100 * z.p < (r + 1) * (r + 1) * z.q)

(***************************************************************************)
(* AnomalyDetector (python-ml).                                            *)
(***************************************************************************)
\* settings.anomaly_threshold = 2.5, in tenths
anomaly_threshold == 25

\* AnomalyDetection(...)
AnomalyDetection(transaction_id, is_anomaly, anomaly_score, confidence, reasons) ==
    IF ConfidenceInRange(confidence)
    THEN Returned([transaction_id |-> transaction_id, is_anomaly |-> is_anomaly,
                   anomaly_score |-> anomaly_score, confidence |-> confidence,
                   reasons |-> reasons])
    ELSE Raised("ValidationError")

\* a variant of the comparison: z_score >= self.threshold
ExceedsOrMeetsThreshold(z_score) ==
    /\ z_score.sgn > 0
    /\ \/ z_score.p * 10 * 10 > anomaly_threshold * anomaly_threshold * z_score.q
       \/ /\ z_score.p * 10 * 10 = anomaly_threshold * anomaly_threshold * z_score.q
          /\ z_score.ulp >= 0

\* `z_score > self.threshold`
ExceedsThreshold(z_score) == RootGreater(z_score, anomaly_threshold, 10)

\* the result of the `std == 0` branch
IdenticalHistoryResult(transaction, mean) ==
    AnomalyDetection(transaction.id, FALSE, Zero, 50,
                     << [text |-> "All historical amounts are identical"] >>)

\* AnomalyDetector.detect; rounding.quotient is the side the z-score is
\* rounded to, rounding.band the side mean + threshold * std is rounded to
AnomalyDetector_detect(transaction, historical_amounts, rounding) ==
    IF historical_amounts = <<>> \/ Len(historical_amounts) < 3
    THEN AnomalyDetection(transaction.id, FALSE, Zero, 10,
             << [text |-> "Not enough historical data (need >= 3 transactions)"] >>)
    ELSE
    LET mean == Mean(historical_amounts)
        std  == PopulationStd(historical_amounts)
    IN  IF std.sgn = 0
        THEN IdenticalHistoryResult(transaction, mean)
        ELSE
        LET z_score    == AbsRoot(Deviations(transaction.amount, mean, std,
                                             rounding.quotient))
            is_anomaly == ExceedsThreshold(z_score)
            confidence == ZConfidence(z_score)
            reasons    ==
                IF is_anomaly
                THEN << [text |-> "Amount is std devs from mean",
                         amount |-> transaction.amount, z_score |-> z_score,
                         mean |-> mean],
                        IF AboveBand(transaction.amount, mean, anomaly_threshold, 10,
                                     std, rounding.band)
                        THEN [text |-> "Unusually HIGH amount", threshold |-> anomaly_threshold]
                        ELSE [text |-> "Unusually LOW amount", threshold |-> anomaly_threshold] >>
                ELSE << >>
        IN  AnomalyDetection(transaction.id, is_anomaly, z_score, confidence, reasons)

(***************************************************************************)
(* ml-service anomaly scorer.                                              *)
(***************************************************************************)
NoReason == [text |-> "None"]

detect_anomaly_zscore(amount, historical_amounts, rounding) ==
    IF Len(historical_amounts) < 3
    THEN [is_anomaly |-> FALSE, score |-> Zero,
          reason |-> [text |-> "Insufficient historical data"]]
    ELSE
    LET mean  == Mean(historical_amounts)
        stdev == SampleStdev(historical_amounts)
    IN  IF stdev.sgn = 0
        THEN LET is_anomaly == amount * mean.den # mean.num
             IN  [is_anomaly |-> is_anomaly,
                  score |-> IF is_anomaly THEN One ELSE Zero,
                  reason |-> IF is_anomaly
                             THEN [text |-> "Amount differs from constant",
                                   amount |-> amount, mean |-> mean]
                             ELSE NoReason]
        ELSE
        LET z_score       == AbsRoot(Deviations(amount, mean, stdev, rounding.quotient))
            is_anomaly    == RootGreater(z_score, 2, 1)
            anomaly_score == MinOne(RootDiv(z_score, 3))
        IN  [is_anomaly |-> is_anomaly, score |-> anomaly_score,
             reason |-> IF is_anomaly
                        THEN [text |-> "Amount is std devs from mean",
                              amount |-> amount, z_score |-> z_score, mean |-> mean]
                        ELSE NoReason]

\* the confidence the /v1/detect/anomaly endpoint of ml-service reports
SimpleAnomalyConfidence(historical_amounts) ==
    IF Len(historical_amounts) >= 10 THEN 85 ELSE 60

\* the /v1/detect/anomaly endpoint of ml-service
detect_anomaly(transaction, historical_amounts, rounding) ==
    LET r == detect_anomaly_zscore(transaction.amount, historical_amounts, rounding)
    IN  [is_anomaly |-> r.is_anomaly, anomaly_score |-> r.score,
         confidence |-> SimpleAnomalyConfidence(historical_amounts),
         method |-> "zscore", reason |-> r.reason]

(***************************************************************************)
(* Inputs.                                                                 *)
(***************************************************************************)
TxIds == {"tx-1", "tx-2"}

Fragments ==
    {<<"S", "T", "A", "R", "B", "U", "C", "K", "S">>,
     <<"s", "t", "a", "r", "b", "u", "c", "k", "s">>,
     <<"A", "m", "a", "z", "o", "n">>,
     <<"U", "B", "E", "R">>,
     <<"S", "Q">>,
     <<" ">>,
     <<"#", "1">>}

\* the descriptions made of at most n fragments
RECURSIVE Concats(_)
Concats(n) ==
    IF n = 0 THEN {<< >>}
    ELSE LET shorter == Concats(n - 1)
         IN  shorter \cup {d \o f : d \in shorter, f \in Fragments}

Descriptions == Concats(MaxFrags)

Transactions == [id : TxIds, description : Descriptions, amount : {499}]

\* the merchant argument of the category endpoints
MerchantInputs ==
    {<<"s", "t", "a", "r", "b", "u", "c", "k", "s">>,
     <<"a", "m", "a", "z", "o", "n">>,
     <<"u", "b", "e", "r">>,
     <<"w", "a", "l", "m", "a", "r", "t">>,
     <<"n", "e", "t", "f", "l", "i", "x">>,
     <<"S", "T", "A", "R", "B", "U", "C", "K", "S">>,
     <<"d", "e", "l", "t", "a">>}

AnomalyTransactions ==
    [id : {"tx-1"}, description : {<<"U", "B", "E", "R">>}, amount : (0 - MaxAmount)..MaxAmount]

Histories == UNION {[1..n -> 0..MaxHistAmount] : n \in 0..MaxHist}

\* xs repeated k times: the same mean and population deviation as xs
RECURSIVE Repeat(_, _)
Repeat(xs, k) == IF k = 0 THEN << >> ELSE xs \o Repeat(xs, k - 1)

\* histories of 12 amounts
LongHistories == {Repeat(xs, 4) : xs \in [1..3 -> 0..MaxHistAmount]}

AnomalyHistories == Histories \cup LongHistories

\* the sides the quotient and the band of one detection are rounded to
DetectionRoundings == [quotient : Roundings, band : Roundings]

NoRounding == [quotient |-> 0, band |-> 0]

\* the roundings that are told apart by a comparison with num / den: all of
\* them when the exact z of the amount ties with num / den, else the exact one
RoundingsAt(amount, xs, std, num, den) ==
    IF Len(xs) >= 3 /\ std.sgn # 0
       /\ LET z == AbsRoot(Deviations(amount, Mean(xs), std, 0))
          IN  z.sgn > 0 /\ z.p * den * den = num * num * z.q
    THEN DetectionRoundings
    ELSE {NoRounding}

(***************************************************************************)
(* State.                                                                  *)
(*   provider  settings.llm_provider, read once when the detectors are     *)
(*             constructed                                                 *)
(*   rules     the rule table of CategoryDetector (declared above)         *)
(*   req       the request in progress at the python-ml /v1 endpoints;     *)
(*             req.response is the text the provider answered              *)
(*   simple    the request in progress at the ml-service endpoints         *)
(*   batch     the detect_merchants_batch call in progress                 *)
(*   tasks     the detector.detect(tx) coroutines of that call             *)
(*   order     the positions of the tasks in their order of completion     *)
(*   log       the events the batch call has logged                        *)
(***************************************************************************)
VARIABLES provider, req, simple, batch, tasks, order, log

vars == <<provider, rules, req, simple, batch, tasks, order, log>>

NoTransaction == [id |-> "", description |-> << >>, amount |-> 0]

IdleReq ==
    [endpoint |-> "none", pc |-> "idle", transaction |-> NoTransaction,
     merchant |-> << >>, historical_amounts |-> << >>, calls |-> 0,
     llm |-> "none", response |-> NotJson, outcome |-> NoOutcome,
     http |-> [status |-> 0]]

IdleBatch == [pc |-> "idle", transactions |-> << >>, detections |-> << >>]

Init ==
    /\ provider \in Providers
    /\ rules = CATEGORY_RULES
    /\ req = IdleReq
    /\ simple = IdleReq
    /\ batch = IdleBatch
    /\ tasks = << >>
    /\ order = << >>
    /\ log = << >>

(***************************************************************************)
(* python-ml /v1 endpoints, one request at a time.                         *)
(***************************************************************************)
\* what an endpoint answers: the result, or HTTPException(500, str(e))
EndpointResponse(outcome) ==
    IF outcome.kind = "result"
    THEN [status |-> 200, body |-> outcome.result]
    ELSE [status |-> 500, detail |-> outcome.error]

\* POST /v1/detect/merchant up to the await of the provider call
DetectMerchant ==
    /\ req.pc = "idle"
    /\ \E transaction \in Transactions :
           req' = [IdleReq EXCEPT !.endpoint = "merchant", !.pc = "awaiting",
                                  !.transaction = transaction, !.calls = 1]
    /\ UNCHANGED <<provider, rules, simple, batch, tasks, order, log>>

\* the provider call raises
MerchantProviderRaises ==
    /\ req.endpoint = "merchant" /\ req.pc = "awaiting"
    /\ LET outcome == MerchantDetectExcept(req.transaction, "APIError")
       IN  req' = [req EXCEPT !.pc = "done", !.llm = "raised",
                              !.outcome = outcome,
                              !.http = EndpointResponse(outcome)]
    /\ UNCHANGED <<provider, rules, simple, batch, tasks, order, log>>

\* the provider call returns a text
MerchantProviderResponds(response) ==
    /\ req.endpoint = "merchant" /\ req.pc = "awaiting"
    /\ LET parsed  == _detect_with_provider(req.transaction, response, ModelOf(provider))
           outcome == IF parsed.kind = "error"
                      THEN MerchantDetectExcept(req.transaction, parsed.error)
                      ELSE parsed
       IN  req' = [req EXCEPT !.pc = "done", !.llm = "responded",
                              !.response = response,
                              !.outcome = outcome,
                              !.http = EndpointResponse(outcome)]
    /\ UNCHANGED <<provider, rules, simple, batch, tasks, order, log>>

\* POST /v1/detect/category: the rule branch answers at once, the fallback
\* awaits the provider call
DetectCategory ==
    /\ req.pc = "idle"
    /\ \E transaction \in Transactions, merchant \in MerchantInputs :
           IF CategoryRuleIndex(merchant) # 0
           THEN LET outcome == CategoryRuleResult(transaction, merchant)
                IN  req' = [IdleReq EXCEPT !.endpoint = "category", !.pc = "done",
                                           !.transaction = transaction,
                                           !.merchant = merchant,
                                           !.outcome = outcome,
                                           !.http = EndpointResponse(outcome)]
           ELSE req' = [IdleReq EXCEPT !.endpoint = "category", !.pc = "awaiting",
                                       !.transaction = transaction,
                                       !.merchant = merchant, !.calls = 1]
    /\ UNCHANGED <<provider, rules, simple, batch, tasks, order, log>>

CategoryProviderRaises ==
    /\ req.endpoint = "category" /\ req.pc = "awaiting"
    /\ LET outcome == Raised("APIError")
       IN  req' = [req EXCEPT !.pc = "done", !.llm = "raised",
                              !.outcome = outcome,
                              !.http = EndpointResponse(outcome)]
    /\ UNCHANGED <<provider, rules, simple, batch, tasks, order, log>>

\* a variant of the fallback that keeps the provider's answer as a rule for
\* the merchant
CategoryProviderRespondsAndLearns(response) ==
    /\ req.endpoint = "category" /\ req.pc = "awaiting"
    /\ LET outcome == _detect_with_llm(req.transaction, req.merchant, response,
                                       ModelOf(provider))
       IN  /\ req' = [req EXCEPT !.pc = "done", !.llm = "responded",
                                 !.response = response,
                                 !.outcome = outcome,
                                 !.http = EndpointResponse(outcome)]
           /\ rules' = IF outcome.kind = "result"
                       THEN Append(rules, [merchant |-> req.merchant,
                                           category |-> outcome.result.category,
                                           confidence |-> outcome.result.confidence,
                                           rule_id |-> "learned-rule"])
                       ELSE rules
    /\ UNCHANGED <<provider, simple, batch, tasks, order, log>>

\* the provider call of _detect_with_llm returns a text
CategoryProviderResponds(response) ==
    /\ req.endpoint = "category" /\ req.pc = "awaiting"
    /\ LET outcome == _detect_with_llm(req.transaction, req.merchant, response,
                                       ModelOf(provider))
       IN  req' = [req EXCEPT !.pc = "done", !.llm = "responded",
                              !.response = response,
                              !.outcome = outcome,
                              !.http = EndpointResponse(outcome)]
    /\ UNCHANGED <<provider, rules, simple, batch, tasks, order, log>>

\* POST /v1/detect/anomaly
DetectAnomaly ==
    /\ req.pc = "idle"
    /\ \E transaction \in AnomalyTransactions, historical_amounts \in AnomalyHistories :
         \E rounding \in RoundingsAt(transaction.amount, historical_amounts,
                                     PopulationStd(historical_amounts),
                                     anomaly_threshold, 10) :
           LET outcome == AnomalyDetector_detect(transaction, historical_amounts, rounding)
           IN  req' = [IdleReq EXCEPT !.endpoint = "anomaly", !.pc = "done",
                                      !.transaction = transaction,
                                      !.historical_amounts = historical_amounts,
                                      !.outcome = outcome,
                                      !.http = EndpointResponse(outcome)]
    /\ UNCHANGED <<provider, rules, simple, batch, tasks, order, log>>

\* the response has been sent; the next request can be taken
RequestDone ==
    /\ req.pc = "done"
    /\ req' = IdleReq
    /\ UNCHANGED <<provider, rules, simple, batch, tasks, order, log>>

Next ==
    \/ DetectMerchant
    \/ MerchantProviderRaises
    \/ \E response \in MerchantResponses : MerchantProviderResponds(response)
    \/ DetectCategory
    \/ CategoryProviderRaises
    \/ \E response \in CategoryResponses : CategoryProviderResponds(response)
    \/ DetectAnomaly
    \/ RequestDone

Spec == Init /\ [][Next]_vars

(***************************************************************************)
(* ml-service endpoints, one request at a time.  The service has no        *)
(* external classifier: no handler makes a provider call.                  *)
(***************************************************************************)
\* POST /v1/detect/merchant of ml-service
detect_merchant(transaction) ==
    LET r == detect_merchant_simple(transaction.description)
    IN  [merchant |-> r.merchant, confidence |-> r.confidence,
         method |-> "pattern-matching"]

\* POST /v1/detect/category of ml-service; an absent or empty merchant is
\* detected from the description first
detect_category(transaction, merchant) ==
    LET m == IF merchant = << >>
             THEN detect_merchant_simple(transaction.description).merchant
             ELSE merchant
        r == detect_category_simple(m)
    IN  [category |-> r.category, confidence |-> r.confidence, method |-> "rules"]

SimpleDetectMerchant ==
    /\ simple.pc = "idle"
    /\ \E transaction \in Transactions :
           simple' = [IdleReq EXCEPT !.endpoint = "merchant", !.pc = "done",
                                     !.transaction = transaction,
                                     !.outcome = Returned(detect_merchant(transaction)),
                                     !.http = [status |-> 200,
                                               body |-> detect_merchant(transaction)]]
    /\ UNCHANGED <<provider, rules, req, batch, tasks, order, log>>

SimpleDetectCategory ==
    /\ simple.pc = "idle"
    /\ \E transaction \in Transactions, merchant \in MerchantInputs \cup {<< >>} :
           simple' = [IdleReq EXCEPT !.endpoint = "category", !.pc = "done",
                                     !.transaction = transaction,
                                     !.merchant = merchant,
                                     !.outcome = Returned(detect_category(transaction, merchant)),
                                     !.http = [status |-> 200,
                                               body |-> detect_category(transaction, merchant)]]
    /\ UNCHANGED <<provider, rules, req, batch, tasks, order, log>>

SimpleDetectAnomaly ==
    /\ simple.pc = "idle"
    /\ \E transaction \in AnomalyTransactions, historical_amounts \in AnomalyHistories :
         \E rounding \in RoundingsAt(transaction.amount, historical_amounts,
                                     SampleStdev(historical_amounts), 2, 1) :
           simple' = [IdleReq EXCEPT !.endpoint = "anomaly", !.pc = "done",
                                     !.transaction = transaction,
                                     !.historical_amounts = historical_amounts,
                                     !.outcome = Returned(detect_anomaly(transaction, historical_amounts,
                                                                         rounding)),
                                     !.http = [status |-> 200,
                                               body |-> detect_anomaly(transaction, historical_amounts,
                                                                       rounding)]]
    /\ UNCHANGED <<provider, rules, req, batch, tasks, order, log>>

SimpleRequestDone ==
    /\ simple.pc = "done"
    /\ simple' = IdleReq
    /\ UNCHANGED <<provider, rules, req, batch, tasks, order, log>>

NextSimple ==
    \/ SimpleDetectMerchant
    \/ SimpleDetectCategory
    \/ SimpleDetectAnomaly
    \/ SimpleRequestDone

SpecSimple == Init /\ [][NextSimple]_vars

(***************************************************************************)
(* detect_merchants_batch.                                                 *)
(***************************************************************************)
BatchTransactions ==
    {[id |-> "tx-1", description |-> <<"S", "T", "A", "R", "B", "U", "C", "K", "S">>, amount |-> 499],
     [id |-> "tx-2", description |-> <<"S", "Q">>, amount |-> 499],
     [id |-> "tx-3", description |-> <<"U", "B", "E", "R">>, amount |-> 499]}

BatchInputs == UNION {[1..n -> BatchTransactions] : n \in 0..MaxBatch}

BatchResponses ==
    {NotJson,
     [json |-> TRUE, keys |-> {"merchant", "confidence", "reasoning"},
      label |-> <<"s", "t", "a", "r", "b", "u", "c", "k", "s">>,
      category |-> "", confidence |-> 98]}

LogEvent(event, transaction) == [event |-> event, transaction_id |-> transaction.id]

\* a variant of gather that yields the outcomes in their order of completion
GatherAsCompleted(ts, completion) ==
    [k \in 1..Len(completion) |-> ts[completion[k]].outcome]

\* asyncio.gather(*tasks, return_exceptions=True): the outcomes of the tasks
\* in the order of the arguments, exceptions included
Gather(ts, completion) == [i \in 1..Len(ts) |-> ts[i].outcome]

\* isinstance(result, Exception)
IsException(result) == result.kind = "error"

\* a variant of the logger.error call that reads the identifier of the
\* first transaction
BatchErrorEventFirst(transactions, i, result) ==
    LogEvent("batch_detection_error", transactions[1])

\* the logger.error call of the filtering loop
BatchErrorEvent(transactions, i, result) ==
    LogEvent("batch_detection_error", transactions[i])

\* the filtering loop, entered at position i with the detections and the
\* log events accumulated so far
RECURSIVE FilterLoop(_, _, _, _)
FilterLoop(results, transactions, i, acc) ==
    IF i > Len(results) THEN acc
    ELSE IF IsException(results[i])
         THEN FilterLoop(results, transactions, i + 1,
                  [acc EXCEPT !.events = Append(@, BatchErrorEvent(transactions, i, results[i]))])
         ELSE FilterLoop(results, transactions, i + 1,
                  [acc EXCEPT !.detections = Append(@, results[i].result)])

\* detect_merchants_batch(transactions) up to the await of gather: the
\* detector is constructed and one coroutine per transaction is created
BatchCall ==
    /\ batch.pc = "idle"
    /\ \E transactions \in BatchInputs :
           /\ batch' = [IdleBatch EXCEPT !.pc = "gathering",
                                         !.transactions = transactions]
           /\ tasks' = [i \in 1..Len(transactions) |->
                            [pc |-> "created", calls |-> 0, outcome |-> NoOutcome]]
    /\ order' = << >>
    /\ log' = << >>
    /\ UNCHANGED <<provider, rules, req, simple>>

\* a variant in which a provider call can complete as soon as one task has
\* been started
SomeStarted == \E j \in 1..Len(tasks) : tasks[j].pc # "created"

\* every task gather has scheduled has run up to its provider call:
\* the event loop runs the ready tasks before it polls for completions
AllStarted == \A j \in 1..Len(tasks) : tasks[j].pc # "created"

AllDone == \A j \in 1..Len(tasks) : tasks[j].pc = "done"

\* the event loop runs the tasks gather has scheduled, in the order of
\* their creation, each up to its await of the provider call
TaskStart(i) ==
    /\ batch.pc = "gathering"
    /\ tasks[i].pc = "created"
    /\ \A j \in 1..(i - 1) : tasks[j].pc # "created"
    /\ tasks' = [tasks EXCEPT ![i].pc = "awaiting", ![i].calls = 1]
    /\ log' = Append(log, LogEvent("merchant_detection_started", batch.transactions[i]))
    /\ UNCHANGED <<provider, rules, req, simple, batch, order>>

\* the provider call of task i raises
TaskProviderRaises(i) ==
    /\ batch.pc = "gathering" /\ AllStarted
    /\ tasks[i].pc = "awaiting"
    /\ tasks' = [tasks EXCEPT ![i].pc = "done",
                              ![i].outcome = MerchantDetectExcept(batch.transactions[i], "APIError")]
    /\ log' = Append(log, LogEvent("merchant_detection_failed", batch.transactions[i]))
    /\ order' = Append(order, i)
    /\ UNCHANGED <<provider, rules, req, simple, batch>>

\* the provider call of task i returns a text
TaskProviderResponds(i, response) ==
    /\ batch.pc = "gathering" /\ AllStarted
    /\ tasks[i].pc = "awaiting"
    /\ LET parsed  == _detect_with_provider(batch.transactions[i], response, ModelOf(provider))
           outcome == IF parsed.kind = "error"
                      THEN MerchantDetectExcept(batch.transactions[i], parsed.error)
                      ELSE parsed
       IN  /\ tasks' = [tasks EXCEPT ![i].pc = "done", ![i].outcome = outcome]
           /\ log' = Append(log, LogEvent(IF outcome.kind = "error"
                                          THEN "merchant_detection_failed"
                                          ELSE "merchant_detection_completed",
                                          batch.transactions[i]))
    /\ order' = Append(order, i)
    /\ UNCHANGED <<provider, rules, req, simple, batch>>

\* gather has every outcome: the filtering loop runs and the batch returns
BatchReturn ==
    /\ batch.pc = "gathering" /\ AllDone
    /\ LET results == Gather(tasks, order)
           acc     == FilterLoop(results, batch.transactions, 1,
                                 [detections |-> << >>, events |-> << >>])
       IN  /\ batch' = [batch EXCEPT !.pc = "returned", !.detections = acc.detections]
           /\ log' = log \o acc.events
    /\ UNCHANGED <<provider, rules, req, simple, tasks, order>>

\* the caller has the list; the next batch can be taken
BatchDone ==
    /\ batch.pc = "returned"
    /\ batch' = IdleBatch
    /\ tasks' = << >>
    /\ order' = << >>
    /\ log' = << >>
    /\ UNCHANGED <<provider, rules, req, simple>>

NextBatch ==
    \/ BatchCall
    \/ \E i \in 1..Len(tasks) : TaskStart(i)
    \/ \E i \in 1..Len(tasks) : TaskProviderRaises(i)
    \/ \E i \in 1..Len(tasks), response \in BatchResponses : TaskProviderResponds(i, response)
    \/ BatchReturn
    \/ BatchDone

SpecBatch == Init /\ [][NextBatch]_vars

\* the event loop keeps running what is ready: a scheduled task is started
\* and gather returns once every task is done.  Nothing makes a provider
\* call complete: there is no timeout and no cancellation, so no fairness
\* is assumed of TaskProviderRaises and TaskProviderResponds.
SpecBatchFair ==
    /\ SpecBatch
    /\ WF_vars(\E i \in 1..Len(tasks) : TaskStart(i))
    /\ WF_vars(BatchReturn)

(***************************************************************************)
(* The python-ml process: the endpoints and detect_merchants_batch share   *)
(* the detectors, the rule table and one event loop, in which a handler    *)
(* runs from one await to the next.  A request is served to its end while  *)
(* no batch is running and a batch while no request is; a rule-path        *)
(* category call, which awaits nothing, is also served while every         *)
(* provider call of a batch is in flight.                                  *)
(***************************************************************************)
AllInFlight ==
    /\ batch.pc = "gathering"
    /\ Len(tasks) > 0
    /\ \A j \in 1..Len(tasks) : tasks[j].pc = "awaiting"

NextService ==
    \/ batch.pc = "idle" /\ Next
    \/ req.pc = "idle" /\ NextBatch
    \/ AllInFlight /\ DetectCategory /\ req'.pc = "done"
    \/ AllInFlight /\ RequestDone

SpecService == Init /\ [][NextService]_vars

(***************************************************************************)
(* Properties.                                                             *)
(***************************************************************************)
\* the merchants of the known patterns a description contains, compared
\* case-insensitively
KnownMerchantsIn(description) ==
    {MERCHANT_PATTERNS[k].merchant : k \in
        {j \in 1..Len(MERCHANT_PATTERNS) :
            Contains(MERCHANT_PATTERNS[j].pattern, Upper(description))}}

\* C1: whenever MerchantDetector.detect is called (through POST
\* /v1/detect/merchant) with a description that contains a known merchant
\* pattern, it makes no external classifier call and returns that pattern's
\* merchant by the rule strategy (no model named in the result) with a
\* confidence of at least 0.90.
C1_RuleMatchWithoutClassifier ==
    (/\ req.endpoint = "merchant"
     /\ req.pc \in {"awaiting", "done"}
     /\ KnownMerchantsIn(req.transaction.description) # {})
    => /\ req.calls = 0
       /\ req.pc = "done"
       /\ req.outcome.kind = "result"
       /\ req.outcome.result.merchant \in KnownMerchantsIn(req.transaction.description)
       /\ req.outcome.result.confidence >= 90
       /\ req.outcome.result.model = "None"

\* C2: whenever merchant detection (MerchantDetector.detect, or the
\* merchant endpoint of ml-service) has handled a description that matches
\* no merchant pattern, it has made exactly one external classifier call,
\* and a result it returns is the model's: its method is model, it names
\* the model, its merchant is not guessed locally.
C2_NoMatchCallsClassifierOnce ==
    /\ (/\ req.endpoint = "merchant"
        /\ req.pc = "done"
        /\ KnownMerchantsIn(req.transaction.description) = {})
       => /\ req.calls = 1
          /\ (req.outcome.kind = "result"
              => req.outcome.result.model = ModelOf(provider))
    /\ (/\ simple.endpoint = "merchant"
        /\ simple.pc = "done"
        /\ KnownMerchantsIn(simple.transaction.description) = {})
       => /\ simple.calls = 1
          /\ simple.http.body.method = "model"

\* C3: whenever CategoryDetector.detect is called with a merchant that is a
\* key of CATEGORY_RULES, it has returned (without awaiting anything) that
\* rule's category, confidence and rule_id with method = rule and has made
\* no external classifier call; a classifier call is made only for a
\* merchant that is not a key of the table.
C3_RuleHitWithoutClassifier ==
    (req.endpoint = "category" /\ req.pc \in {"awaiting", "done"})
    => /\ \A k \in 1..Len(CATEGORY_RULES) :
              CATEGORY_RULES[k].merchant = req.merchant
              => /\ req.pc = "done"
                 /\ req.calls = 0
                 /\ req.llm = "none"
                 /\ req.outcome.kind = "result"
                 /\ req.outcome.result.transaction_id = req.transaction.id
                 /\ req.outcome.result.category = CATEGORY_RULES[k].category
                 /\ req.outcome.result.confidence = CATEGORY_RULES[k].confidence
                 /\ req.outcome.result.rule_id = CATEGORY_RULES[k].rule_id
                 /\ req.outcome.result.method = "rule"
                 /\ req.http.status = 200
       /\ req.calls > 0
              => \A k \in 1..Len(CATEGORY_RULES) :
                     CATEGORY_RULES[k].merchant # req.merchant

C3_Witness ==
    /\ req.endpoint = "category" /\ req.pc = "done"
    /\ req.merchant = <<"s", "t", "a", "r", "b", "u", "c", "k", "s">>
    /\ req.calls = 0
    /\ req.outcome.kind = "result"
    /\ req.outcome.result.category = "cafe"
    /\ req.outcome.result.method = "rule"

\* C4: a result CategoryDetector.detect returns after a rule miss has a
\* category of the fixed vocabulary: an answer of the external classifier
\* with a label outside the vocabulary makes the call fail.
C4_FallbackCategoryInVocabulary ==
    (/\ req.endpoint = "category"
     /\ req.pc = "done"
     /\ req.llm = "responded"
     /\ req.outcome.kind = "result")
    => req.outcome.result.category \in PromptCategories

\* the positions of the tasks that returned a result / raised
Succeeded == {i \in 1..Len(tasks) : tasks[i].outcome.kind = "result"}

Failed == {i \in 1..Len(tasks) : tasks[i].outcome.kind = "error"}

\* the identifiers of the batch_detection_error events, in log order
RECURSIVE BatchErrorIds(_)
BatchErrorIds(events) ==
    IF events = << >> THEN << >>
    ELSE IF Head(events).event = "batch_detection_error"
         THEN <<Head(events).transaction_id>> \o BatchErrorIds(Tail(events))
         ELSE BatchErrorIds(Tail(events))

Occurrences(xs, x) == Cardinality({k \in 1..Len(xs) : xs[k] = x})

\* C5: when detect_merchants_batch returns, whatever the order in which
\* the calls completed, the returned list is exactly the results of the
\* calls that succeeded, in input order: there is a strictly increasing
\* map from the positions of the list onto the positions of the successful
\* transactions, entry k being the result of the transaction it maps to,
\* and no failed transaction has an entry.
C5_BatchPreservesInputOrder ==
    batch.pc = "returned"
    => /\ Len(batch.detections) = Cardinality(Succeeded)
       /\ \E f \in [1..Len(batch.detections) -> Succeeded] :
              /\ \A j, k \in 1..Len(batch.detections) : j < k => f[j] < f[k]
              /\ \A k \in 1..Len(batch.detections) :
                     /\ batch.detections[k] = tasks[f[k]].outcome.result
                     /\ batch.detections[k].transaction_id = batch.transactions[f[k]].id

C5_Witness ==
    /\ batch.pc = "returned"
    /\ Len(batch.transactions) = 3
    /\ order = <<3, 2, 1>>
    /\ Succeeded = {1, 3}
    /\ batch.transactions[1].id # batch.transactions[3].id
    /\ Len(batch.detections) = 2

\* C6: when detect_merchants_batch returns, every input transaction's call
\* has been issued once and has run to its own outcome, failures of other
\* calls notwithstanding, and every transaction is accounted for exactly
\* once: each identifier occurs among the returned results and the
\* batch_detection_error events together as often as in the input, the
\* events being those of the failed transactions, in input order.
C6_BatchIsolatesFailures ==
    batch.pc = "returned"
    => /\ Len(tasks) = Len(batch.transactions)
       /\ \A i \in 1..Len(tasks) :
              /\ tasks[i].pc = "done"
              /\ tasks[i].calls = 1
              /\ tasks[i].outcome.kind \in {"result", "error"}
       /\ Len(batch.detections) + Len(BatchErrorIds(log)) = Len(batch.transactions)
       /\ Len(BatchErrorIds(log)) = Cardinality(Failed)
       /\ \A x \in {t.id : t \in BatchTransactions} :
              Occurrences([k \in 1..Len(batch.detections) |->
                               batch.detections[k].transaction_id], x)
              + Occurrences(BatchErrorIds(log), x)
              = Occurrences([k \in 1..Len(batch.transactions) |->
                                 batch.transactions[k].id], x)
       /\ \E f \in [1..Len(BatchErrorIds(log)) -> Failed] :
              /\ \A j, k \in 1..Len(BatchErrorIds(log)) : j < k => f[j] < f[k]
              /\ \A k \in 1..Len(BatchErrorIds(log)) :
                     BatchErrorIds(log)[k] = batch.transactions[f[k]].id

C6_Witness ==
    /\ batch.pc = "returned"
    /\ Len(batch.transactions) = 3
    /\ batch.transactions[1].id = "tx-1"
    /\ batch.transactions[2].id = "tx-2"
    /\ batch.transactions[3].id = "tx-3"
    /\ Failed = {2}
    /\ order[1] = 2
    /\ Len(batch.detections) = 2
    /\ BatchErrorIds(log) = <<"tx-2">>

\* C7: in both anomaly scorers, a request with fewer than 3 historical
\* amounts is answered is_anomaly = false, score 0, confidence at most 0.5
\* and exactly one reason, which says that historical data is insufficient,
\* whatever the amount.
C7_InsufficientHistory ==
    /\ (req.endpoint = "anomaly" /\ req.pc = "done" /\ Len(req.historical_amounts) < 3)
       => /\ req.outcome.kind = "result"
          /\ req.outcome.result.is_anomaly = FALSE
          /\ req.outcome.result.anomaly_score.sgn = 0
          /\ req.outcome.result.confidence <= 50
          /\ req.outcome.result.reasons =
                 << [text |-> "Not enough historical data (need >= 3 transactions)"] >>
    /\ (simple.endpoint = "anomaly" /\ simple.pc = "done" /\ Len(simple.historical_amounts) < 3)
       => /\ simple.http.body.is_anomaly = FALSE
          /\ simple.http.body.anomaly_score.sgn = 0
          /\ simple.http.body.confidence <= 50
          /\ simple.http.body.reason = [text |-> "Insufficient historical data"]

\* the historical amounts are all equal: their standard deviation is zero
ConstantHistory(xs) == \A j, k \in 1..Len(xs) : xs[j] = xs[k]

\* C8: in both anomaly scorers, with at least 3 historical amounts that are
\* all equal (standard deviation exactly zero), the transaction is reported
\* anomalous iff its amount differs from that constant, with score 0 when
\* it is equal and a non-zero score when it differs.
C8_ZeroDeviation ==
    /\ (/\ req.endpoint = "anomaly" /\ req.pc = "done"
        /\ Len(req.historical_amounts) >= 3
        /\ ConstantHistory(req.historical_amounts))
       => /\ req.outcome.kind = "result"
          /\ req.outcome.result.is_anomaly
                 = (req.transaction.amount # req.historical_amounts[1])
          /\ (req.outcome.result.anomaly_score.sgn # 0)
                 = (req.transaction.amount # req.historical_amounts[1])
    /\ (/\ simple.endpoint = "anomaly" /\ simple.pc = "done"
        /\ Len(simple.historical_amounts) >= 3
        /\ ConstantHistory(simple.historical_amounts))
       => /\ simple.http.body.is_anomaly
                 = (simple.transaction.amount # simple.historical_amounts[1])
          /\ (simple.http.body.anomaly_score.sgn # 0)
                 = (simple.transaction.amount # simple.historical_amounts[1])

\* n * amount - sum(history): n times the deviation of the amount from the mean
ScaledDeviation(amount, xs) == Len(xs) * amount - Sum(xs)

\* C9: in AnomalyDetector.detect, with at least 3 historical amounts that
\* are not all equal, is_anomaly is true iff z = |amount - mean| / stdev is
\* strictly greater than the threshold 2.5, z being the quotient as
\* computed: iff (10 * |n * amount - sum|)^2 exceeds
\* 25^2 * (n * sum of squares - sum^2), or equals it and the computed
\* quotient (the reported score) was rounded above its exact value; a
\* computed z of exactly 2.5 is not anomalous, and the reported score is not
\* negative.
C9_AnomalyIffAboveThreshold ==
    (/\ req.endpoint = "anomaly" /\ req.pc = "done"
     /\ Len(req.historical_amounts) >= 3
     /\ ~ConstantHistory(req.historical_amounts))
    => /\ req.outcome.kind = "result"
       /\ req.outcome.result.is_anomaly
              = (\/ 100 * ScaledDeviation(req.transaction.amount, req.historical_amounts)
                        * ScaledDeviation(req.transaction.amount, req.historical_amounts)
                    > 625 * SquaredDeviation(req.historical_amounts)
                 \/ /\ 100 * ScaledDeviation(req.transaction.amount, req.historical_amounts)
                           * ScaledDeviation(req.transaction.amount, req.historical_amounts)
                       = 625 * SquaredDeviation(req.historical_amounts)
                    /\ req.outcome.result.anomaly_score.ulp > 0)
       /\ req.outcome.result.anomaly_score.sgn >= 0

\* an amount whose computed z is exactly 2.5 is not anomalous
C9_Witness ==
    /\ req.endpoint = "anomaly" /\ req.pc = "done"
    /\ req.historical_amounts = <<0, 0, 4, 4>>
    /\ req.transaction.amount = 7
    /\ req.outcome.kind = "result"
    /\ req.outcome.result.is_anomaly = FALSE
    /\ req.outcome.result.anomaly_score = Root(1, 400 * 16, 16 * 64)

\* C10: when the external classifier call of MerchantDetector.detect or
\* CategoryDetector.detect has raised, the detect call has raised too: it
\* has made that one classifier call and no other, it returns no result,
\* and the single-item endpoint answers a failed request (status 500) with
\* no result in it.
C10_ClassifierFailurePropagates ==
    (req.pc = "done" /\ req.llm = "raised")
    => /\ req.endpoint \in {"merchant", "category"}
       /\ req.calls = 1
       /\ req.outcome = Raised("APIError")
       /\ req.http.status = 500
       /\ DOMAIN req.http = {"status", "detail"}

C10_Witness ==
    /\ req.endpoint = "merchant"
    /\ req.pc = "done"
    /\ req.llm = "raised"
    /\ req.outcome.kind = "error"
    /\ req.http.status = 500

\* the key of the label the detector of the request reads from the answer
LabelKey == IF req.endpoint = "merchant" THEN "merchant" ELSE "category"

\* C11: when the provider call of MerchantDetector.detect or
\* CategoryDetector.detect has been made, the call has ended either in a
\* result or in a failure.  A result has the transaction's identifier, the
\* label and the confidence of the answer, the confidence within [0,1], and
\* the answer was JSON with both keys; an answer that is not JSON or lacks
\* the label key or the confidence key has given a failure (status 500, no
\* result in the response).
C11_FallbackResultOrFailure ==
    (/\ req.endpoint \in {"merchant", "category"}
     /\ req.pc = "done"
     /\ req.calls = 1)
    => /\ req.llm \in {"raised", "responded"}
       /\ req.outcome.kind \in {"result", "error"}
       /\ req.outcome.kind = "result"
              => /\ req.llm = "responded"
                 /\ req.response.json
                 /\ {LabelKey, "confidence"} \subseteq req.response.keys
                 /\ req.outcome.result.transaction_id = req.transaction.id
                 /\ req.outcome.result.confidence = req.response.confidence
                 /\ req.outcome.result.confidence \in 0..100
                 /\ req.endpoint = "merchant"
                        => req.outcome.result.merchant = req.response.label
                 /\ req.endpoint = "category"
                        => req.outcome.result.category = req.response.category
                 /\ req.http = [status |-> 200, body |-> req.outcome.result]
       /\ (/\ req.llm = "responded"
           /\ \/ ~req.response.json
              \/ LabelKey \notin req.response.keys
              \/ "confidence" \notin req.response.keys)
              => /\ req.outcome.kind = "error"
                 /\ req.http.status = 500
                 /\ DOMAIN req.http = {"status", "detail"}

\* a JSON answer with the merchant but without the confidence has failed
C11_Witness ==
    /\ req.endpoint = "merchant" /\ req.pc = "done"
    /\ req.llm = "responded"
    /\ req.response.json
    /\ req.response.keys = {"merchant"}
    /\ req.outcome = Raised("KeyError")
    /\ req.http.status = 500

\* C12: every result a python-ml detector has returned, by a rule, from the
\* provider's answer or from the statistics, has a confidence within [0,1];
\* an answer of the provider with a confidence outside [0,1] has given a
\* failure and no result.
C12_ConfidenceWithinUnitInterval ==
    /\ (req.pc = "done" /\ req.outcome.kind = "result")
       => /\ req.outcome.result.confidence >= 0
          /\ req.outcome.result.confidence <= 100
          /\ req.http.body.confidence \in 0..100
    /\ (/\ req.pc = "done" /\ req.llm = "responded"
        /\ req.response.json
        /\ {LabelKey, "confidence"} \subseteq req.response.keys
        /\ req.response.confidence \notin 0..100)
       => /\ req.outcome = Raised("ValidationError")
          /\ req.http.status = 500

\* the provider has reported a confidence of 1.5 for a category
C12_Witness ==
    /\ req.endpoint = "category" /\ req.pc = "done"
    /\ req.llm = "responded"
    /\ req.response.confidence = 150
    /\ req.response.keys = {"category", "confidence", "reasoning"}
    /\ req.outcome = Raised("ValidationError")

\* C13: every merchant MerchantDetector.detect has returned from the
\* provider's answer is lowercase and has no whitespace character in it.
C13_ModelMerchantIsCanonicalToken ==
    (/\ req.endpoint = "merchant"
     /\ req.pc = "done"
     /\ req.llm = "responded"
     /\ req.outcome.kind = "result")
    => /\ req.outcome.result.merchant = Lower(req.outcome.result.merchant)
       /\ \A k \in 1..Len(req.outcome.result.merchant) :
              req.outcome.result.merchant[k] \notin Whitespace

\* C14: in AnomalyDetector.detect with at least 3 historical amounts that
\* are not all equal, a result with is_anomaly = true has exactly two
\* reasons: the first states the amount, the z-score and the mean, the second
\* says unusually HIGH iff the amount is above the mean and unusually LOW iff
\* it is below; a result with is_anomaly = false has no reasons.
C14_AnomalyReasons ==
    (/\ req.endpoint = "anomaly" /\ req.pc = "done"
     /\ Len(req.historical_amounts) >= 3
     /\ ~ConstantHistory(req.historical_amounts))
    => /\ req.outcome.kind = "result"
       /\ req.outcome.result.is_anomaly
              => /\ Len(req.outcome.result.reasons) = 2
                 /\ req.outcome.result.reasons[1] =
                        [text |-> "Amount is std devs from mean",
                         amount |-> req.transaction.amount,
                         z_score |-> req.outcome.result.anomaly_score,
                         mean |-> Mean(req.historical_amounts)]
                 /\ req.outcome.result.reasons[2].text
                        \in {"Unusually HIGH amount", "Unusually LOW amount"}
                 /\ (req.outcome.result.reasons[2].text = "Unusually HIGH amount")
                        = (ScaledDeviation(req.transaction.amount,
                                           req.historical_amounts) > 0)
                 /\ (req.outcome.result.reasons[2].text = "Unusually LOW amount")
                        = (ScaledDeviation(req.transaction.amount,
                                           req.historical_amounts) < 0)
       /\ ~req.outcome.result.is_anomaly
              => req.outcome.result.reasons = << >>

\* the confidence AnomalyDetector.detect gives an amount after a history
ConfidenceOf(amount, historical_amounts) ==
    AnomalyDetector_detect([id |-> "tx-1", description |-> << >>, amount |-> amount],
                           historical_amounts,
                           NoRounding).result.confidence

\* after the same history, an amount at least as far from the mean (a z at
\* least as great) has a confidence at least as great, and none exceeds 0.99
ConfidenceMonotone ==
    /\ req.outcome.result.confidence <= 99
    /\ \A amount \in (0 - MaxAmount)..MaxAmount :
           ScaledDeviation(amount, req.historical_amounts)
               * ScaledDeviation(amount, req.historical_amounts)
           >= ScaledDeviation(req.transaction.amount, req.historical_amounts)
                  * ScaledDeviation(req.transaction.amount, req.historical_amounts)
           => ConfidenceOf(amount, req.historical_amounts)
                  >= req.outcome.result.confidence

\* below the cap, the history repeated to 12 amounts (the same z) has a
\* higher confidence than the history of fewer than 10
ConfidenceBoosted ==
    (/\ Len(req.historical_amounts) < 10
     /\ Repeat(req.historical_amounts, 4) \in LongHistories
     /\ req.outcome.result.confidence < 99)
    => ConfidenceOf(req.transaction.amount, Repeat(req.historical_amounts, 4))
           > req.outcome.result.confidence

\* C15: in AnomalyDetector.detect with at least 3 historical amounts that
\* are not all equal, the confidence never decreases when z increases, never
\* exceeds 0.99, and for the same z below the cap is higher after a history
\* of at least 10 amounts than after one of fewer than 10.
C15_ConfidenceGrowsWithZAndSample ==
    (/\ req.endpoint = "anomaly" /\ req.pc = "done"
     /\ Len(req.historical_amounts) >= 3
     /\ ~ConstantHistory(req.historical_amounts))
    => /\ req.outcome.kind = "result"
       /\ ConfidenceMonotone
       /\ ConfidenceBoosted

\* the positions of the patterns a description contains, whatever its case
MatchingPatterns(description) ==
    {k \in 1..Len(MERCHANT_PATTERNS) :
        Contains(MERCHANT_PATTERNS[k].pattern, Upper(description))}

\* C16: the merchant endpoint of ml-service answers every description
\* (status 200, nothing raised).  For a description that contains known
\* patterns, wherever and in whatever case, the answer is the merchant of
\* the pattern that comes first in MERCHANT_PATTERNS, with confidence 0.95;
\* for a description that contains none the answer reports no match: its
\* confidence is 0.30 and its merchant is no merchant of the table.
C16_FirstPatternWins ==
    (simple.endpoint = "merchant" /\ simple.pc = "done")
    => /\ simple.outcome.kind = "result"
       /\ simple.http.status = 200
       /\ MatchingPatterns(simple.transaction.description) # {}
              => LET first == CHOOSE k \in MatchingPatterns(simple.transaction.description) :
                                 \A j \in MatchingPatterns(simple.transaction.description) :
                                     k <= j
                 IN  /\ simple.http.body.merchant = MERCHANT_PATTERNS[first].merchant
                     /\ simple.http.body.confidence = 95
       /\ MatchingPatterns(simple.transaction.description) = {}
              => /\ simple.http.body.confidence = 30
                 /\ \A k \in 1..Len(MERCHANT_PATTERNS) :
                        simple.http.body.merchant # MERCHANT_PATTERNS[k].merchant

\* UBER comes first in the description, AMAZON first in the pattern list
C16_Witness ==
    /\ simple.endpoint = "merchant" /\ simple.pc = "done"
    /\ simple.transaction.description =
           <<"U", "B", "E", "R", "A", "m", "a", "z", "o", "n">>
    /\ simple.http.body.merchant = <<"a", "m", "a", "z", "o", "n">>
    /\ simple.http.body.confidence = 95

\* what the rule branch of CategoryDetector.detect returns for a
\* transaction and a merchant by the rule table as it is at import
RuleResultAtImport(transaction, merchant) ==
    LET k == CHOOSE j \in 1..Len(CATEGORY_RULES) : CATEGORY_RULES[j].merchant = merchant
    IN  Returned([transaction_id |-> transaction.id,
                  category |-> CATEGORY_RULES[k].category,
                  confidence |-> CATEGORY_RULES[k].confidence,
                  method |-> "rule",
                  rule_id |-> CATEGORY_RULES[k].rule_id,
                  model |-> "None",
                  reasoning |-> "rule-match"])

\* a step leaves the rule table, the configuration of the detectors and the
\* inputs of the calls in progress as they are
NoSharedStateWritten ==
    /\ rules' = rules
    /\ provider' = provider
    /\ (req.pc # "idle" /\ req'.pc # "idle")
           => /\ req'.transaction = req.transaction
              /\ req'.merchant = req.merchant
    /\ (batch.pc # "idle" /\ batch'.pc # "idle")
           => batch'.transactions = batch.transactions

\* C17: a rule-path call of CategoryDetector.detect returns the result that
\* the transaction's identifier, the merchant and the rule table at import
\* determine, whatever merchant, category, anomaly and batch calls,
\* successful or failed, have run before it or are in flight; and no step of
\* any call changes the rule table, the detectors' configuration or the
\* transaction of a call in progress.
C17_RulePathRepeatable ==
    /\ []((req.endpoint = "category" /\ req.pc = "done" /\ req.calls = 0)
           => /\ \E k \in 1..Len(CATEGORY_RULES) :
                     CATEGORY_RULES[k].merchant = req.merchant
              /\ req.outcome = RuleResultAtImport(req.transaction, req.merchant))
    /\ [][NoSharedStateWritten]_vars

\* a rule-path call is answered while the three provider calls of a batch
\* are in flight
C17_Witness ==
    /\ batch.pc = "gathering"
    /\ Len(tasks) = 3
    /\ \A j \in 1..Len(tasks) : tasks[j].pc = "awaiting"
    /\ req.endpoint = "category" /\ req.pc = "done" /\ req.calls = 0
    /\ req.merchant = <<"u", "b", "e", "r">>
    /\ req.outcome.kind = "result"
    /\ req.outcome.result.category = "transportation"

\* the provider call of task i is in flight
Awaiting(i) == i \in 1..Len(tasks) /\ tasks[i].pc = "awaiting"

\* C18: in detect_merchants_batch the provider call of every transaction
\* has been issued before any of them is completed, and the batch has
\* returned only when every call has completed with a result or a failure:
\* while one call is in flight the batch is still waiting, whatever its
\* siblings have done.  If no call stays in flight for ever, a batch that
\* waits eventually returns.
C18_BatchWaitsForAll ==
    /\ []((\E i \in 1..Len(tasks) : tasks[i].pc = "done")
           => \A j \in 1..Len(tasks) : tasks[j].calls = 1)
    /\ [](batch.pc = "returned"
           => \A i \in 1..Len(tasks) :
                  /\ tasks[i].pc = "done"
                  /\ tasks[i].outcome.kind \in {"result", "error"})
    /\ []((\E i \in 1..Len(tasks) : tasks[i].pc = "awaiting")
           => batch.pc = "gathering")
    /\ (\A i \in 1..MaxBatch : []<>(~Awaiting(i)))
           => (batch.pc = "gathering" ~> batch.pc = "returned")

\* two calls have completed, one is in flight: the batch has not returned
C18_Witness ==
    /\ batch.pc = "gathering"
    /\ Len(tasks) = 3
    /\ tasks[1].pc = "done"
    /\ tasks[2].pc = "awaiting"
    /\ tasks[3].pc = "done"
    /\ order = <<3, 1>>

====
